---- MODULE Spec2Model ----
(***************************************************************************)
(* A model of package imagegetter of diffoci: ImageGetter.Get and the      *)
(* helpers it calls (getDocker, getPodman, loadDocker, Load, Pull,         *)
(* readerWithEOF.Read), together with the collaborators it drives: the     *)
(* image store, the content store, the transferrer and the `docker save`   *)
(* subprocess.                                                             *)
(*                                                                         *)
(* Each caller p runs one Get call. The call is cut into steps at the      *)
(* points where it calls a collaborator; everything the code does between  *)
(* two collaborator calls belongs to one step.                             *)
(***************************************************************************)
EXTENDS Integers, Sequences, FiniteSets, TLC

\* ------------------------------------------------------------------ bounds
NumPlatforms == 2
\* The chunks of the archive `docker save` writes to its standard output.
ArchiveChunks == 2
\* The length of the buffer handed to readerWithEOF.Read.
MaxRead == 7

Platforms == 1..NumPlatforms
\* The digests a name can point at: the image as it was and as it is upstream.
Digests == {"sha256:old", "sha256:new"}
NoDigest == ""
Procs == {"c1", "c2"}

\* --------------------------------------------------------------- constants
PullAlways == "always"
PullMissing == "missing"
PullNever == "never"
dockerImagePrefix == "docker://"
podmanImagePrefix == "podman://"

\* A PullMode is a string: the three known values and one that is none of them.
PullModes == {PullAlways, PullMissing, PullNever, "sometimes"}

\* errdefs.ErrNotFound, errdefs.ErrUnavailable and the errors of collaborators.
\* An error is the chain of its messages, outermost first (fmt.Errorf's %w);
\* nil is the empty chain.
nil == <<>>
ErrNotFound == "not found"
ErrUnavailable == "unavailable"
ErrStore == "image store failure"
ErrContent == "content store failure"
ErrTransfer == "transfer failure"
ErrInvalidReference == "invalid reference format"
ErrExec == "executable file not found"
ErrIO == "input/output error"
ErrFormat == "invalid compressed stream"
\* os.ErrClosed and io.EOF
ErrClosed == "file already closed"
EOF == "EOF"
\* context.Canceled, the error of a call made with a cancelled ctx
ErrCanceled == "context canceled"

Wrap(msg, err) == <<msg>> \o err
\* errors.Is: the target is somewhere in the chain.
Is(err, target) == \E i \in 1..Len(err) : err[i] = target

\* ------------------------------------------------------------- references
\* A raw reference is a string, modelled as the sequence of its tokens: the
\* prefixes are tokens, and so is the rest of the string.
RawRefs ==
    { <<"app">>, <<"App">>,
      <<dockerImagePrefix, "app">>, <<dockerImagePrefix, "App">>,
      <<podmanImagePrefix, "app">>, <<podmanImagePrefix, "App">>,
      <<dockerImagePrefix, podmanImagePrefix, "app">> }

HasPrefix(s, prefix) == Len(s) >= 1 /\ s[1] = prefix
TrimPrefix(s, prefix) == IF HasPrefix(s, prefix) THEN Tail(s) ELSE s

\* refdocker.ParseDockerRef followed by ref.String(): the familiar name gets
\* its default domain and tag; upper case and "://" are no reference.
Familiar == "app" :> "docker.io/library/app:latest"
Names == {Familiar[f] : f \in DOMAIN Familiar}
ParseDockerRef(s) ==
    IF Len(s) = 1 /\ s[1] \in DOMAIN Familiar
    THEN [name |-> Familiar[s[1]], err |-> nil]
    ELSE [name |-> "", err |-> <<ErrInvalidReference>>]

isDocker(raw) == HasPrefix(raw, dockerImagePrefix)
\* An isPodman copied from isDocker with the prefix left as it was.
isPodman_Copied(raw) == HasPrefix(raw, dockerImagePrefix)
isPodman(raw) == HasPrefix(raw, podmanImagePrefix)

\* []ocispec.Platform, as the set of its elements.
PlatformSets == SUBSET Platforms
\* platforms.Any(plats...): with no platform given it matches every platform.
platformsAny(ps) == IF ps = {} THEN Platforms ELSE ps

\* ------------------------------------------------------------------ state
VARIABLES
    callers,       \* the callers that may call Get in this run
    pc,            \* pc[p]: where caller p's Get call stands
    rawRef,        \* the arguments of the call
    plats,
    pullMode,
    name,          \* Get's local `name`
    img,           \* Get's and loadDocker's local `img`
    ret,           \* what the call returned: [img, err]
    log,           \* the collaborator calls of the call, in order
    dockerCmd,     \* loadDocker's subprocess: its arguments and its state
    stdout,        \* the pipe from the subprocess (r in loadDocker)
    imageStore,    \* images.Store: name -> the digest of its target, if any
    contentStore,  \* content.Store: digest -> the platforms whose blobs it holds
    ctx,           \* the caller's context: "live" or "canceled"
    checked,       \* the target the call's last platform check was made on
    lastRead       \* a Read of readerWithEOF: the underlying result and its own

vars == <<callers, pc, rawRef, plats, pullMode, name, img, ret, log,
          dockerCmd, stdout, imageStore, contentStore, ctx, checked, lastRead>>

\* What a registry step leaves alone, and what a store lookup leaves alone.
daemonVars == <<dockerCmd, stdout>>
storeVars == <<imageStore, contentStore>>
callVars == <<callers, rawRef, plats, pullMode, name, ctx, lastRead>>
argVars == <<callVars, checked>>

NoImage == [Name |-> "", Target |-> NoDigest]
Image(n, d) == [Name |-> n, Target |-> d]
NoRet == [img |-> NoImage, err |-> nil]

Event(op, arg) == [op |-> op, arg |-> arg]
Logged(p, e) == log' = [log EXCEPT ![p] = Append(@, e)]
Logged2(p, e1, e2) == log' = [log EXCEPT ![p] = Append(Append(@, e1), e2)]

RECURSIVE CountOp(_, _)
CountOp(l, op) ==
    IF l = <<>> THEN 0
    ELSE (IF Head(l).op = op THEN 1 ELSE 0) + CountOp(Tail(l), op)

\* `return image, error`
Return(p, image, error) ==
    /\ pc' = [pc EXCEPT ![p] = "done"]
    /\ ret' = [ret EXCEPT ![p] = [img |-> image, err |-> error]]

Goto(p, label) == pc' = [pc EXCEPT ![p] = label] /\ UNCHANGED ret

\* ----------------------------------------------------------- collaborators
\* imageStore.Get(ctx, name): the record, ErrNotFound, or a failure of the store.
imageStoreGet(n) ==
    { IF imageStore[n] = NoDigest
      THEN [img |-> NoImage, err |-> <<ErrNotFound>>]
      ELSE [img |-> Image(n, imageStore[n]), err |-> nil],
      [img |-> NoImage, err |-> <<ErrStore>>] }

\* images.Check(ctx, contentStore, target, platMC): available iff the blobs of
\* every platform the matcher asks for are in the content store.
imagesCheck(target, platMC) ==
    { [available |-> platMC \subseteq contentStore[target], err |-> nil],
      [available |-> FALSE, err |-> <<ErrContent>>] }

\* transferrer.Transfer into the store, on success: the name may come to point
\* at any digest (or stay as it is), and any part of the asked platforms' blobs
\* arrives.
Transferred(n, ps) ==
    \E d \in {imageStore[n]} \cup Digests, got \in SUBSET platformsAny(ps) :
        /\ imageStore' = [imageStore EXCEPT ![n] = d]
        /\ contentStore' = IF d = NoDigest THEN contentStore
                           ELSE [contentStore EXCEPT ![d] = @ \cup got]

\* Pull, lines 122-137, from the moment Transfer returns.
PullResult(p, err) ==
    /\ IF err = nil
       THEN Transferred(name[p], plats[p])
       ELSE UNCHANGED <<imageStore, contentStore>>
    /\ Logged(p, Event("PullReturn", err))

PullErrors == {nil, Wrap("failed to pull", <<ErrTransfer>>)}

\* ------------------------------------------------------------- subprocess
\* exec.Cmd: "unstarted" until Start succeeds, then "running", then "exited"
\* with its status once the process has ended. loadDocker never calls
\* dockerCmd.Wait(), so no step takes an exited process to "reaped".
NoCmd == [args |-> <<>>, state |-> "unstarted", status |-> 0]
\* The pipe: the chunks written and read so far, and whether the read end r is
\* open. The write end is open as long as the subprocess runs.
NoPipe == [written |-> 0, read |-> 0, ropen |-> FALSE]

\* The subprocess writes the next chunk of the archive.
ChildWrite(p) ==
    /\ dockerCmd[p].state = "running"
    /\ stdout[p].ropen
    /\ stdout[p].written < ArchiveChunks
    /\ stdout' = [stdout EXCEPT ![p].written = @ + 1]
    /\ UNCHANGED <<argVars, pc, img, ret, log, dockerCmd, storeVars>>

\* The subprocess ends: with status 0 once it has written the whole archive,
\* with another status at any time.
ChildExit(p) ==
    /\ dockerCmd[p].state = "running"
    /\ \E status \in {0, 1} :
        /\ status = 0 => stdout[p].written = ArchiveChunks
        /\ dockerCmd' = [dockerCmd EXCEPT ![p].state = "exited", ![p].status = status]
    /\ UNCHANGED <<argVars, pc, img, ret, log, stdout, storeVars>>

\* The subprocess writes to a pipe whose read end is closed: SIGPIPE ends it.
ChildSigpipe(p) ==
    /\ dockerCmd[p].state = "running"
    /\ ~stdout[p].ropen
    /\ stdout[p].written < ArchiveChunks
    /\ dockerCmd' = [dockerCmd EXCEPT ![p].state = "exited", ![p].status = 141]
    /\ UNCHANGED <<argVars, pc, img, ret, log, stdout, storeVars>>

\* r.Reader.Read(p) on the pipe: the possible results [n, err]. No result: the
\* read blocks.
pipeRead(p) ==
    IF ~stdout[p].ropen
    THEN {[n |-> 0, err |-> <<"read |0", ErrClosed>>]}
    ELSE {[n |-> 0, err |-> <<"read |0", ErrIO>>]} \cup
         (IF stdout[p].read < stdout[p].written
          THEN {[n |-> 1, err |-> nil]}
          ELSE IF dockerCmd[p].state # "running"
          THEN {[n |-> 0, err |-> <<EOF>>]}
          ELSE {})

\* A Read that reports the closed pipe as EOF and forgets the bytes it read.
readerWithEOF_Read_DropsCount(res) ==
    IF Is(res.err, ErrClosed) THEN [n |-> 0, err |-> <<EOF>>] ELSE res
\* readerWithEOF.Read, lines 212-218, given the result of r.Reader.Read.
readerWithEOF_Read(res) ==
    IF Is(res.err, ErrClosed) THEN [n |-> res.n, err |-> <<EOF>>] ELSE res

\* The results r.Reader.Read can give for a buffer of MaxRead bytes: a count
\* and an error, os.ErrClosed wrapped in a PathError or bare among them.
UnderlyingErrors ==
    { nil, <<EOF>>, <<ErrClosed>>, <<"read |0", ErrClosed>>,
      <<ErrIO>>, <<"read |0", ErrIO>>, <<"read |0", ErrCanceled>> }
UnderlyingReads == [n : 0..MaxRead, err : UnderlyingErrors]
NoRead == [n |-> 0 - 1, err |-> nil]

\* The reads Load's pipeline can make now.
Reads(p) == {readerWithEOF_Read(res) : res \in pipeRead(p)}
Consumed(p, rd) == stdout' = [stdout EXCEPT ![p].read = @ + rd.n]

\* `defer r.Close()` on a return of loadDocker.
ReturnClosing(p, image, error) ==
    /\ Return(p, image, error)
    /\ stdout' = [stdout EXCEPT ![p].ropen = FALSE]

\* ----------------------------------------------------------- Get decisions
\* A Get whose switch has no default case.
KnownPullMode_NoDefault(mode) == TRUE
KnownPullMode(mode) == mode \in {PullAlways, PullMissing, PullNever}
\* A Get that forgets the `case PullAlways` pull.
PullsFirst_Forgotten(mode) == FALSE
PullsFirst(mode) == mode = PullAlways
\* A Get that pulls on every error of the lookup, not only on ErrNotFound.
PullsOnGetError_AnyError(err, mode) == err # nil /\ mode # PullNever
\* A Get that forgets the `pullMode != PullNever` of line 285.
PullsOnGetError_AnyMode(err, mode) == Is(err, ErrNotFound)
PullsOnGetError(err, mode) == Is(err, ErrNotFound) /\ mode # PullNever
\* A Get that forgets the `pullMode == PullNever` of line 309.
PullsOnUnavailable_AnyMode(mode) == TRUE
PullsOnUnavailable(mode) == mode # PullNever

\* --------------------------------------------------------------- Get steps
\* loadDocker, lines 221-233: the command, its pipe and its start.
loadDocker(p, docker, n, ps) ==
    LET args == <<docker, "save", n>> IN
    /\ name' = [name EXCEPT ![p] = n]
    /\ \E pipeErr \in {nil, <<ErrIO>>}, startErr \in {nil, <<ErrExec>>} :
        IF pipeErr # nil
        THEN /\ Return(p, NoImage, pipeErr)
             /\ dockerCmd' = [dockerCmd EXCEPT ![p].args = args]
             /\ UNCHANGED <<log, stdout>>
        ELSE IF startErr # nil
        THEN /\ Return(p, NoImage, Wrap("failed to run", startErr))
             /\ Logged(p, Event("Start", startErr))
             /\ dockerCmd' = [dockerCmd EXCEPT ![p].args = args]
             /\ UNCHANGED stdout
        ELSE /\ Goto(p, "DecompressStream")
             /\ Logged(p, Event("Start", nil))
             /\ dockerCmd' = [dockerCmd EXCEPT ![p].args = args, ![p].state = "running"]
             /\ stdout' = [stdout EXCEPT ![p].ropen = TRUE]

\* getDocker and getPodman, lines 180-206. env is the value of $DOCKER or $PODMAN.
getDaemon(p, raw, ps, prefix, env, default) ==
    LET rawRefTrimmed == TrimPrefix(raw, prefix)
        ref == ParseDockerRef(rawRefTrimmed)
    IN  IF ref.err # nil
        THEN /\ Return(p, NoImage, Wrap("failed to parse", ref.err))
             /\ name' = [name EXCEPT ![p] = ""]
             /\ UNCHANGED <<log, dockerCmd, stdout>>
        ELSE loadDocker(p, IF env = "" THEN default ELSE env, ref.name, ps)

getDocker(p, raw, ps, env) == getDaemon(p, raw, ps, dockerImagePrefix, env, "docker")
getPodman(p, raw, ps, env) == getDaemon(p, raw, ps, podmanImagePrefix, env, "podman")

\* Get, lines 264-281: a reference without a daemon prefix, up to the first call.
getRegistry(p, raw, ps, mode) ==
    LET ref == ParseDockerRef(raw) IN
    /\ name' = [name EXCEPT ![p] = ref.name]
    /\ UNCHANGED daemonVars
    /\ IF ref.err # nil
       THEN /\ Return(p, NoImage, Wrap("failed to parse", ref.err))
            /\ UNCHANGED log
       ELSE IF PullsFirst(mode)
       THEN /\ Goto(p, "PullAlways")
            /\ Logged(p, Event("Pull", ps))
       ELSE IF KnownPullMode(mode)
       THEN /\ Goto(p, "imageStoreGet")
            /\ UNCHANGED log
       ELSE /\ Return(p, NoImage, <<"unknown pull mode">>)
            /\ UNCHANGED log

\* The values of the environment variables DOCKER and PODMAN: unset.
Environ == {""}

\* Get is called, lines 257-263: the reference is routed by its prefix.
Get(p) ==
    /\ p \in callers
    /\ pc[p] = "idle"
    /\ \E raw \in RawRefs, ps \in PlatformSets, mode \in PullModes :
        /\ rawRef' = [rawRef EXCEPT ![p] = raw]
        /\ plats' = [plats EXCEPT ![p] = ps]
        /\ pullMode' = [pullMode EXCEPT ![p] = mode]
        /\ IF isDocker(raw)
           THEN \E env \in Environ : getDocker(p, raw, ps, env)
           ELSE IF isPodman(raw)
           THEN \E env \in Environ : getPodman(p, raw, ps, env)
           ELSE getRegistry(p, raw, ps, mode)
    /\ UNCHANGED <<callers, img, storeVars, ctx, checked, lastRead>>

\* Load, lines 98-102: DecompressStream peeks at the head of the stream.
DecompressStream(p) ==
    /\ pc[p] = "DecompressStream"
    /\ \E rd \in Reads(p), formatErr \in {nil, <<ErrFormat>>} :
        LET err == IF rd.err \notin {nil, <<EOF>>} THEN rd.err
                   ELSE IF rd.n > 0 THEN formatErr ELSE nil
        IN  IF err # nil
            THEN /\ ReturnClosing(p, NoImage, Wrap("failed to load an archive", err))
                 /\ UNCHANGED log
            ELSE /\ Goto(p, "Transfer")
                 /\ Consumed(p, rd)
                 /\ Logged(p, Event("Transfer", plats[p]))
    /\ UNCHANGED <<argVars, img, dockerCmd, storeVars>>

\* The transferrer reads the import stream.
TransferRead(p) ==
    /\ pc[p] = "Transfer"
    /\ \E rd \in Reads(p) : rd.n > 0 /\ Consumed(p, rd)
    /\ UNCHANGED <<argVars, pc, img, ret, log, dockerCmd, storeVars>>

\* Lines 116 and 234: the ctx handed to Transfer. A Transfer whose ctx is
\* cancelled may return the error of the context.
Canceled(p) ==
    IF ctx[p] = "canceled" THEN {Wrap("failed to load", <<ErrCanceled>>)} ELSE {}

\* Load, lines 116-119, and loadDocker, lines 234-236: Transfer returns. It
\* succeeds only on an archive it has read to the end.
TransferReturn(p) ==
    /\ pc[p] = "Transfer"
    /\ \E err \in {nil, Wrap("failed to load", <<ErrTransfer>>)} \cup Canceled(p) :
        /\ err = nil => stdout[p].read = ArchiveChunks
        /\ Logged(p, Event("TransferReturn", err))
        /\ IF err # nil
           THEN /\ ReturnClosing(p, NoImage, Wrap("failed to load an archive", err))
                /\ UNCHANGED storeVars
           ELSE /\ Goto(p, "Close")
                /\ Transferred(name[p], plats[p])
                /\ UNCHANGED stdout
    /\ UNCHANGED <<argVars, img, dockerCmd>>

\* loadDocker, lines 237-239: r.Close().
Close(p) ==
    /\ pc[p] = "Close"
    /\ stdout' = [stdout EXCEPT ![p].ropen = FALSE]
    /\ \E err \in {nil, <<"close |0", ErrIO>>} :
        IF err # nil THEN Return(p, NoImage, err) ELSE Goto(p, "loadedGet")
    /\ UNCHANGED <<argVars, img, log, dockerCmd, storeVars>>

\* A loadDocker that pulls, as Get does, when the loaded image is not found.
LoadedGet_PullsWhenMissing(p) ==
    /\ pc[p] = "loadedGet"
    /\ \E r \in imageStoreGet(name[p]) :
        /\ img' = [img EXCEPT ![p] = r.img]
        /\ IF Is(r.err, ErrNotFound)
           THEN /\ Goto(p, "PullMissing")
                /\ Logged2(p, Event("Get", r), Event("Pull", plats[p]))
           ELSE IF r.err # nil
           THEN /\ Return(p, NoImage,
                       Wrap("should have loaded an archive, but the loaded image is not accessible", r.err))
                /\ Logged(p, Event("Get", r))
           ELSE /\ Goto(p, "loadedCheck")
                /\ Logged(p, Event("Get", r))
    /\ UNCHANGED <<argVars, daemonVars, storeVars>>

\* loadDocker, lines 240-243: the lookup of the loaded image.
LoadedGet(p) ==
    /\ pc[p] = "loadedGet"
    /\ \E r \in imageStoreGet(name[p]) :
        /\ img' = [img EXCEPT ![p] = r.img]
        /\ Logged(p, Event("Get", r))
        /\ IF r.err # nil
           THEN Return(p, NoImage,
                       Wrap("should have loaded an archive, but the loaded image is not accessible", r.err))
           ELSE Goto(p, "loadedCheck")
    /\ UNCHANGED <<argVars, daemonVars, storeVars>>

\* A loadDocker that forgets the `if !available` of line 251.
LoadedCheck_Lenient(p) ==
    /\ pc[p] = "loadedCheck"
    /\ checked' = [checked EXCEPT ![p] = img[p].Target]
    /\ \E c \in imagesCheck(img[p].Target, platformsAny(plats[p])) :
        IF c.err # nil
        THEN /\ Return(p, NoImage, c.err)
             /\ Logged(p, Event("Check", "error"))
        ELSE /\ Return(p, img[p], nil)
             /\ Logged(p, Event("Check", IF c.available THEN "available" ELSE "unavailable"))
    /\ UNCHANGED <<callVars, img, daemonVars, storeVars>>

\* loadDocker, lines 245-254: the platform check.
LoadedCheck(p) ==
    /\ pc[p] = "loadedCheck"
    /\ checked' = [checked EXCEPT ![p] = img[p].Target]
    /\ \E c \in imagesCheck(img[p].Target, platformsAny(plats[p])) :
        IF c.err # nil
        THEN /\ Return(p, NoImage, c.err)
             /\ Logged(p, Event("Check", "error"))
        ELSE IF ~c.available
        THEN /\ Return(p, NoImage,
                       Wrap("image lacks blobs for additional platforms", <<ErrUnavailable>>))
             /\ Logged(p, Event("Check", "unavailable"))
        ELSE /\ Return(p, img[p], nil)
             /\ Logged(p, Event("Check", "available"))
    /\ UNCHANGED <<callVars, img, daemonVars, storeVars>>

\* A Get that goes on to the lookup whatever the unconditional Pull returned.
PullAlwaysReturn_IgnoresError(p) ==
    /\ pc[p] = "PullAlways"
    /\ \E err \in PullErrors :
        /\ PullResult(p, err)
        /\ Goto(p, "imageStoreGet")
    /\ UNCHANGED <<argVars, img, daemonVars>>

\* Lines 273-275: the unconditional Pull returns.
PullAlwaysReturn(p) ==
    /\ pc[p] = "PullAlways"
    /\ \E err \in PullErrors :
        /\ PullResult(p, err)
        /\ IF err # nil
           THEN Return(p, NoImage, Wrap("failed to pull", err))
           ELSE Goto(p, "imageStoreGet")
    /\ UNCHANGED <<argVars, img, daemonVars>>

\* A Get that holds a per-name lock around the lookup and the pull: it waits
\* while another call is pulling the same name.
GetImage_SingleFlight(p) ==
    /\ pc[p] = "imageStoreGet"
    /\ \A q \in Procs \ {p} :
           ~(name[q] = name[p] /\ pc[q] \in {"PullAlways", "PullMissing", "PullPlatforms"})
    /\ \E r \in imageStoreGet(name[p]) :
        /\ img' = [img EXCEPT ![p] = r.img]
        /\ IF r.err = nil
           THEN /\ Goto(p, "imagesCheck")
                /\ Logged(p, Event("Get", r))
           ELSE IF PullsOnGetError(r.err, pullMode[p])
           THEN /\ Goto(p, "PullMissing")
                /\ Logged2(p, Event("Get", r), Event("Pull", plats[p]))
           ELSE /\ Return(p, NoImage, Wrap("failed to get image", r.err))
                /\ Logged(p, Event("Get", r))
    /\ UNCHANGED <<argVars, daemonVars, storeVars>>

\* Lines 283-300: the lookup, and what follows it up to the next call.
GetImage(p) ==
    /\ pc[p] = "imageStoreGet"
    /\ \E r \in imageStoreGet(name[p]) :
        /\ img' = [img EXCEPT ![p] = r.img]
        /\ IF r.err = nil
           THEN /\ Goto(p, "imagesCheck")
                /\ Logged(p, Event("Get", r))
           ELSE IF PullsOnGetError(r.err, pullMode[p])
           THEN /\ Goto(p, "PullMissing")
                /\ Logged2(p, Event("Get", r), Event("Pull", plats[p]))
           ELSE /\ Return(p, NoImage, Wrap("failed to get image", r.err))
                /\ Logged(p, Event("Get", r))
    /\ UNCHANGED <<argVars, daemonVars, storeVars>>

\* A Get that goes back to the first lookup after the pull, and so pulls again
\* when the image is still not found.
PullMissingReturn_Loop(p) ==
    /\ pc[p] = "PullMissing"
    /\ \E err \in PullErrors :
        /\ PullResult(p, err)
        /\ IF err # nil
           THEN Return(p, NoImage, Wrap("failed to pull", err))
           ELSE Goto(p, "imageStoreGet")
    /\ UNCHANGED <<argVars, img, daemonVars>>

\* Lines 287-289: the Pull after a not-found lookup returns.
PullMissingReturn(p) ==
    /\ pc[p] = "PullMissing"
    /\ \E err \in PullErrors :
        /\ PullResult(p, err)
        /\ IF err # nil
           THEN Return(p, NoImage, Wrap("failed to pull", err))
           ELSE Goto(p, "imageStoreGetRetry")
    /\ UNCHANGED <<argVars, img, daemonVars>>

\* A Get that trusts the Pull: it returns the image the second lookup finds
\* without the platform check.
GetImageRetry_SkipsCheck(p) ==
    /\ pc[p] = "imageStoreGetRetry"
    /\ \E r \in imageStoreGet(name[p]) :
        /\ img' = [img EXCEPT ![p] = r.img]
        /\ Logged(p, Event("Get", r))
        /\ IF r.err # nil
           THEN Return(p, NoImage,
                       Wrap("should have pulled, but still not accessible in the local store", r.err))
           ELSE Return(p, r.img, nil)
    /\ UNCHANGED <<argVars, daemonVars, storeVars>>

\* Lines 290-296: the second lookup.
GetImageRetry(p) ==
    /\ pc[p] = "imageStoreGetRetry"
    /\ \E r \in imageStoreGet(name[p]) :
        /\ img' = [img EXCEPT ![p] = r.img]
        /\ Logged(p, Event("Get", r))
        /\ IF r.err # nil
           THEN Return(p, NoImage,
                       Wrap("should have pulled, but still not accessible in the local store", r.err))
           ELSE Goto(p, "imagesCheck")
    /\ UNCHANGED <<argVars, daemonVars, storeVars>>

\* Lines 302-318: the platform check, and what follows it up to the next call.
CheckPlatforms(p) ==
    /\ pc[p] = "imagesCheck"
    /\ checked' = [checked EXCEPT ![p] = img[p].Target]
    /\ \E c \in imagesCheck(img[p].Target, platformsAny(plats[p])) :
        IF c.err # nil
        THEN /\ Return(p, NoImage, c.err)
             /\ Logged(p, Event("Check", "error"))
        ELSE IF c.available
        THEN /\ Return(p, img[p], nil)
             /\ Logged(p, Event("Check", "available"))
        ELSE IF PullsOnUnavailable(pullMode[p])
        THEN /\ Goto(p, "PullPlatforms")
             /\ Logged2(p, Event("Check", "unavailable"), Event("Pull", plats[p]))
        ELSE /\ Return(p, NoImage,
                       Wrap("image lacks blobs for additional platforms", <<ErrUnavailable>>))
             /\ Logged(p, Event("Check", "unavailable"))
    /\ UNCHANGED <<callVars, img, daemonVars, storeVars>>

\* A Get that checks the platforms again after the Pull for additional platforms.
PullPlatformsReturn_Recheck(p) ==
    /\ pc[p] = "PullPlatforms"
    /\ \E err \in PullErrors :
        /\ PullResult(p, err)
        /\ IF err # nil
           THEN Return(p, NoImage, Wrap("failed to pull", err))
           ELSE Goto(p, "imagesCheck")
    /\ UNCHANGED <<argVars, img, daemonVars>>

\* A Get that starts over from the first lookup after the Pull for additional
\* platforms.
PullPlatformsReturn_StartsOver(p) ==
    /\ pc[p] = "PullPlatforms"
    /\ \E err \in PullErrors :
        /\ PullResult(p, err)
        /\ IF err # nil
           THEN Return(p, NoImage, Wrap("failed to pull", err))
           ELSE Goto(p, "imageStoreGet")
    /\ UNCHANGED <<argVars, img, daemonVars>>

\* Lines 313-318: the Pull for additional platforms returns.
PullPlatformsReturn(p) ==
    /\ pc[p] = "PullPlatforms"
    /\ \E err \in PullErrors :
        /\ PullResult(p, err)
        /\ IF err # nil
           THEN Return(p, NoImage, Wrap("failed to pull", err))
           ELSE Return(p, img[p], nil)
    /\ UNCHANGED <<argVars, img, daemonVars>>

\* ---------------------------------------------------------- specification
Stores ==
    /\ imageStore \in [Names -> {NoDigest} \cup Digests]
    /\ contentStore \in [Digests -> SUBSET Platforms]

InitCalls ==
    /\ pc = [p \in Procs |-> "idle"]
    /\ rawRef = [p \in Procs |-> <<>>]
    /\ plats = [p \in Procs |-> {}]
    /\ pullMode = [p \in Procs |-> ""]
    /\ name = [p \in Procs |-> ""]
    /\ img = [p \in Procs |-> NoImage]
    /\ ret = [p \in Procs |-> NoRet]
    /\ log = [p \in Procs |-> <<>>]
    /\ dockerCmd = [p \in Procs |-> NoCmd]
    /\ stdout = [p \in Procs |-> NoPipe]
    /\ ctx = [p \in Procs |-> "live"]
    /\ checked = [p \in Procs |-> NoDigest]

NoReads == [under |-> NoRead, seen |-> NoRead]

\* One caller, any store.
Init == callers = {"c1"} /\ InitCalls /\ Stores /\ lastRead = NoReads

Next ==
    \E p \in Procs :
        \/ Get(p)
        \/ ChildWrite(p)
        \/ ChildExit(p)
        \/ ChildSigpipe(p)
        \/ DecompressStream(p)
        \/ TransferRead(p)
        \/ TransferReturn(p)
        \/ Close(p)
        \/ LoadedGet(p)
        \/ LoadedCheck(p)
        \/ PullAlwaysReturn(p)
        \/ GetImage(p)
        \/ PullMissingReturn(p)
        \/ GetImageRetry(p)
        \/ CheckPlatforms(p)
        \/ PullPlatformsReturn(p)

Spec == Init /\ [][Next]_vars

\* The caller of Get cancels ctx while the subprocess of the call runs.
Cancel(p) ==
    /\ pc[p] \notin {"idle", "done"}
    /\ dockerCmd[p].state = "running"
    /\ ctx[p] = "live"
    /\ ctx' = [ctx EXCEPT ![p] = "canceled"]
    /\ UNCHANGED <<callers, pc, rawRef, plats, pullMode, name, img, ret, log,
                   dockerCmd, stdout, storeVars, checked, lastRead>>

NextCancel == Next \/ \E p \in Procs : Cancel(p)

\* Get with a caller that may cancel the call.
SpecCancel == Init /\ [][NextCancel]_vars

\* readerWithEOF.Read, lines 212-218, on its own: the underlying Read has
\* returned lastRead.under, and Read returns.
Read ==
    /\ lastRead.seen = NoRead
    /\ lastRead' = [lastRead EXCEPT !.seen = readerWithEOF_Read(lastRead.under)]
    /\ UNCHANGED <<callers, pc, rawRef, plats, pullMode, name, img, ret, log,
                   dockerCmd, stdout, storeVars, ctx, checked>>

InitRead ==
    /\ callers = {}
    /\ InitCalls
    /\ imageStore = [n \in Names |-> NoDigest]
    /\ contentStore = [d \in Digests |-> {}]
    /\ lastRead \in [under : UnderlyingReads, seen : {NoRead}]

SpecRead == InitRead /\ [][Read]_vars

\* Two callers at once, each with a Get of "app" for every platform under pull
\* mode "missing".
GetMissing(p) ==
    /\ Get(p)
    /\ rawRef'[p] = <<"app">>
    /\ plats'[p] = Platforms
    /\ pullMode'[p] = PullMissing

\* The steps of a call on a registry reference after its first step.
RegistryStep(p) ==
    \/ GetImage(p)
    \/ PullMissingReturn(p)
    \/ GetImageRetry(p)
    \/ CheckPlatforms(p)
    \/ PullPlatformsReturn(p)

InitConc == callers = Procs /\ InitCalls /\ Stores /\ lastRead = NoReads

NextConc == \E p \in Procs : GetMissing(p) \/ RegistryStep(p)

SpecConc == InitConc /\ [][NextConc]_vars

\* ------------------------------------------------------------------ claims
Called(p) == pc[p] # "idle"
Done(p) == pc[p] = "done"
\* The reference starts with "docker://" or "podman://".
IsDaemonRef(raw) == raw # <<>> /\ raw[1] \in {"docker://", "podman://"}
\* The reference without its daemon prefix, and whether that parses.
Remainder(raw) == IF IsDaemonRef(raw) THEN Tail(raw) ELSE raw
WellFormed(raw) == Len(Remainder(raw)) = 1 /\ Remainder(raw)[1] \in DOMAIN Familiar
UnknownMode(mode) == mode \notin {"always", "missing", "never"}
IsRegistryCall(p) == Called(p) /\ ~IsDaemonRef(rawRef[p])
IsDaemonCall(p) == Called(p) /\ IsDaemonRef(rawRef[p])

OpIndexes(l, op) == {i \in 1..Len(l) : l[i].op = op}
Pulls(p) == CountOp(log[p], "Pull")
Lookups(p) == CountOp(log[p], "Get")
Checks(p) == CountOp(log[p], "Check")
Starts(p) == CountOp(log[p], "Start")
Transfers(p) == CountOp(log[p], "Transfer")
Min(S) == CHOOSE x \in S : \A y \in S : x <= y
Max(S) == CHOOSE x \in S : \A y \in S : x >= y
FirstGet(p) == log[p][Min(OpIndexes(log[p], "Get"))].arg
LastGet(p) == log[p][Max(OpIndexes(log[p], "Get"))].arg
Unavailable == Event("Check", "unavailable")
StillNotAccessible == "should have pulled, but still not accessible in the local store"

\* C1: on a reference without a daemon prefix and with pull mode "never", a
\* lookup that reports not-found ends the call: Get returns no image and an
\* error that is ErrNotFound, having pulled nothing, started no subprocess and
\* begun no transfer.
C1_NeverNotFound ==
    \A p \in Procs :
        ( /\ IsRegistryCall(p)
          /\ pullMode[p] = PullNever
          /\ \E i \in OpIndexes(log[p], "Get") : Is(log[p][i].arg.err, ErrNotFound) )
        => /\ Done(p)
           /\ ret[p].img = NoImage
           /\ Is(ret[p].err, ErrNotFound)
           /\ Pulls(p) = 0 /\ Starts(p) = 0 /\ Transfers(p) = 0
           /\ Lookups(p) = 1
           /\ dockerCmd[p].state = "unstarted"

C1_Witness ==
    \E p \in Procs :
        /\ IsRegistryCall(p) /\ pullMode[p] = PullNever /\ Done(p)
        /\ Len(log[p]) = 1 /\ log[p][1].op = "Get"
        /\ log[p][1].arg.err = <<ErrNotFound>>
        /\ ret[p].err = <<"failed to get image", ErrNotFound>>

\* C2, as stated: on a reference without a daemon prefix and with pull mode
\* "missing", a call whose first lookup reported not-found has, when it
\* returns, made one pull and then one more lookup; if that lookup failed it
\* returns the "still not accessible" error and has pulled once.
C2_Original ==
    \A p \in Procs :
        ( /\ IsRegistryCall(p) /\ pullMode[p] = PullMissing /\ Done(p)
          /\ Lookups(p) >= 1 /\ Is(FirstGet(p).err, ErrNotFound) )
        => /\ Lookups(p) = 2
           /\ Len(log[p]) >= 4
           /\ log[p][2].op = "Pull" /\ log[p][3].op = "PullReturn" /\ log[p][4].op = "Get"
           /\ log[p][4].arg.err # nil =>
                /\ ret[p].err = Wrap(StillNotAccessible, log[p][4].arg.err)
                /\ Pulls(p) = 1

\* C2, amended: the call makes one pull right after the not-found lookup; if
\* the pull fails the call returns the pull's error without a second lookup,
\* and if it succeeds the call makes exactly one more lookup; if that lookup
\* fails the call returns the "still not accessible" error, having pulled once.
C2_PullThenRelookup ==
    \A p \in Procs :
        ( /\ IsRegistryCall(p) /\ pullMode[p] = PullMissing
          /\ Lookups(p) >= 1 /\ Is(FirstGet(p).err, ErrNotFound) )
        => LET l == log[p] IN
           /\ l[1].op = "Get"
           /\ Len(l) >= 2 /\ l[2] = Event("Pull", plats[p])
           /\ Len(l) = 2 => pc[p] = "PullMissing"
           /\ Len(l) >= 3 => l[3].op = "PullReturn"
           /\ (Len(l) >= 3 /\ l[3].arg # nil) =>
                /\ Done(p) /\ Len(l) = 3
                /\ ret[p] = [img |-> NoImage, err |-> Wrap("failed to pull", l[3].arg)]
           /\ (Len(l) = 3 /\ l[3].arg = nil) => pc[p] = "imageStoreGetRetry"
           /\ Len(l) >= 4 => l[3].arg = nil /\ l[4].op = "Get"
           /\ (Len(l) >= 4 /\ l[4].arg.err # nil) =>
                /\ Done(p) /\ Len(l) = 4
                /\ ret[p] = [img |-> NoImage,
                             err |-> Wrap(StillNotAccessible, l[4].arg.err)]
                /\ Pulls(p) = 1
           /\ Lookups(p) <= 2

C2_Witness ==
    \E p \in Procs :
        /\ IsRegistryCall(p) /\ pullMode[p] = PullMissing /\ Done(p)
        /\ Len(log[p]) = 4
        /\ log[p][1].op = "Get" /\ log[p][1].arg.err = <<ErrNotFound>>
        /\ log[p][3] = Event("PullReturn", nil)
        /\ log[p][4].op = "Get" /\ log[p][4].arg.err = <<ErrNotFound>>
        /\ ret[p].err = <<StillNotAccessible, ErrNotFound>>

\* C3: on a reference without a daemon prefix and with pull mode "always", the
\* first collaborator call of Get is a Pull with the requested platforms, and
\* whenever the call has looked the image up, exactly one Pull came before the
\* first lookup and had returned without error by then, whatever the store held.
C3_AlwaysPullsFirst ==
    \A p \in Procs :
        (IsRegistryCall(p) /\ pullMode[p] = PullAlways)
        => LET l == log[p] IN
           /\ l # <<>> => l[1] = Event("Pull", plats[p])
           /\ ParseDockerRef(rawRef[p]).err = nil => l # <<>>
           /\ Len(l) = 1 => pc[p] = "PullAlways"
           /\ Lookups(p) >= 1 =>
                LET g == Min(OpIndexes(l, "Get")) IN
                /\ g = 3
                /\ l[2] = Event("PullReturn", nil)
                /\ Cardinality({i \in OpIndexes(l, "Pull") : i < g}) = 1

C3_Witness ==
    \E p \in Procs :
        /\ IsRegistryCall(p) /\ pullMode[p] = PullAlways /\ Done(p)
        /\ Len(log[p]) = 4
        /\ log[p][1].op = "Pull" /\ log[p][2] = Event("PullReturn", nil)
        /\ log[p][3].op = "Get" /\ log[p][3].arg.err = nil
        /\ log[p][4] = Event("Check", "available")
        /\ ret[p].err = nil /\ ret[p].img = log[p][3].arg.img

\* C4: on a reference without a daemon prefix and with pull mode "never", a
\* platform check that reports the image unavailable ends the call: Get
\* returns no image and an error that is ErrUnavailable, having pulled nothing.
C4_NeverUnavailable ==
    \A p \in Procs :
        ( /\ IsRegistryCall(p) /\ pullMode[p] = PullNever
          /\ \E i \in DOMAIN log[p] : log[p][i] = Unavailable )
        => /\ Done(p)
           /\ ret[p].img = NoImage
           /\ Is(ret[p].err, ErrUnavailable)
           /\ Pulls(p) = 0 /\ Starts(p) = 0 /\ Transfers(p) = 0

C4_Witness ==
    \E p \in Procs :
        /\ IsRegistryCall(p) /\ pullMode[p] = PullNever /\ Done(p)
        /\ Len(log[p]) = 2
        /\ log[p][1].op = "Get" /\ log[p][1].arg.err = nil
        /\ log[p][2] = Unavailable
        /\ ret[p].err = <<"image lacks blobs for additional platforms", ErrUnavailable>>

\* C5: on a reference without a daemon prefix and with pull mode "missing", a
\* platform check that reports the image unavailable is followed by exactly
\* one Pull, with the requested platforms, and by nothing else: no second
\* check and no further lookup. When that Pull returns without error, Get
\* returns the image of the last lookup, made before the Pull.
C5_CorrectivePull ==
    \A p \in Procs :
        (IsRegistryCall(p) /\ pullMode[p] = PullMissing)
        => \A i \in DOMAIN log[p] :
            log[p][i] = Unavailable =>
                LET l == log[p] IN
                /\ Checks(p) = 1
                /\ Len(l) >= i + 1 /\ l[i + 1] = Event("Pull", plats[p])
                /\ Len(l) <= i + 2
                /\ Len(l) = i + 1 => pc[p] = "PullPlatforms"
                /\ Len(l) = i + 2 =>
                    /\ l[i + 2].op = "PullReturn"
                    /\ Done(p)
                    /\ l[i + 2].arg = nil =>
                        /\ ret[p] = [img |-> LastGet(p).img, err |-> nil]
                        /\ Max(OpIndexes(l, "Get")) < i
                        /\ ret[p].img # NoImage

C5_Witness ==
    \E p \in Procs :
        /\ IsRegistryCall(p) /\ pullMode[p] = PullMissing /\ Done(p)
        /\ Len(log[p]) = 4
        /\ log[p][1].op = "Get" /\ log[p][1].arg.err = nil
        /\ log[p][2] = Unavailable
        /\ log[p][3] = Event("Pull", plats[p])
        /\ log[p][4] = Event("PullReturn", nil)
        /\ ret[p] = [img |-> log[p][1].arg.img, err |-> nil]
        /\ imageStore[name[p]] # ret[p].img.Target

\* The image's target is in the store with the blobs of every requested platform.
Complete(image, ps) ==
    /\ image.Target \in Digests
    /\ platformsAny(ps) \subseteq contentStore[image.Target]

\* The call's platform check reported the image unavailable and the Pull that
\* followed returned without error.
CorrectivePull(p) ==
    /\ IsRegistryCall(p)
    /\ pullMode[p] \in {"always", "missing"}
    /\ \E i \in DOMAIN log[p] :
        /\ log[p][i] = Unavailable
        /\ Len(log[p]) = i + 2
        /\ log[p][i + 1].op = "Pull"
        /\ log[p][i + 2] = Event("PullReturn", nil)

\* C6, as stated: every image Get returns, for any reference and pull mode, is
\* a record of the store whose target has the blobs of every requested platform
\* in the content store when it is returned.
C6_Original ==
    \A p \in Procs :
        (Done(p) /\ ret[p].err = nil)
        => /\ ret[p].img # NoImage
           /\ Complete(ret[p].img, plats[p])

\* C6, amended: every image Get returns is the record of the call's last
\* lookup, under the name asked for, and its target has the blobs of every
\* requested platform unless the call's platform check reported it
\* unavailable and Get then pulled (no daemon prefix, pull mode "always" or
\* "missing"): that image is returned unchecked. A call that returns an error
\* returns no image.
C6_CompleteUnlessPulledAfterCheck ==
    \A p \in Procs :
        /\ (Done(p) /\ ret[p].err = nil) =>
            /\ Lookups(p) >= 1
            /\ ret[p].img = LastGet(p).img
            /\ ret[p].img.Name = name[p]
            /\ ret[p].img.Target \in Digests
            /\ Complete(ret[p].img, plats[p]) \/ CorrectivePull(p)
        /\ (Done(p) /\ ret[p].err # nil) => ret[p].img = NoImage

C6_Witness ==
    \E p \in Procs :
        /\ Done(p) /\ ret[p].err = nil
        /\ IsDaemonRef(rawRef[p])
        /\ plats[p] = Platforms
        /\ Complete(ret[p].img, plats[p])
        /\ log[p][Len(log[p])] = Event("Check", "available")

\* C7, as stated, for the references that parse: a call whose pull mode is none
\* of "always", "missing" and "never" returns the "unknown pull mode" error
\* and has called no collaborator and started no subprocess, whatever the
\* prefix of the reference.
C7_Original ==
    \A p \in Procs :
        (Called(p) /\ UnknownMode(pullMode[p]) /\ WellFormed(rawRef[p]))
        => /\ Done(p)
           /\ ret[p] = [img |-> NoImage, err |-> <<"unknown pull mode">>]
           /\ log[p] = <<>>
           /\ dockerCmd[p].state = "unstarted"

\* C7, amended: on a reference without a daemon prefix, a call whose pull mode
\* is none of "always", "missing" and "never" returns at once, with the
\* "unknown pull mode" error if the reference parses and the parse error if
\* not, having called no collaborator and started no subprocess. On a
\* reference with a daemon prefix the pull mode is not looked at: the call
\* never returns the "unknown pull mode" error, and runs the daemon command
\* if the reference parses.
C7_UnknownModeRegistryOnly ==
    \A p \in Procs :
        (Called(p) /\ UnknownMode(pullMode[p]))
        => IF IsDaemonRef(rawRef[p])
           THEN /\ ret[p].err # <<"unknown pull mode">>
                /\ WellFormed(rawRef[p]) => dockerCmd[p].args # <<>>
           ELSE /\ Done(p)
                /\ ret[p] = [img |-> NoImage,
                             err |-> IF WellFormed(rawRef[p])
                                     THEN <<"unknown pull mode">>
                                     ELSE <<"failed to parse", ErrInvalidReference>>]
                /\ log[p] = <<>>
                /\ dockerCmd[p] = NoCmd

C7_Witness ==
    \E p \in Procs :
        /\ Done(p) /\ UnknownMode(pullMode[p])
        /\ rawRef[p] = <<"app">>
        /\ ret[p].err = <<"unknown pull mode">>
        /\ log[p] = <<>>

\* C8, as stated: a call on a reference with a daemon prefix never pulls and
\* always runs the daemon loader, under every pull mode.
C8_Original ==
    \A p \in Procs :
        (Called(p) /\ IsDaemonRef(rawRef[p]))
        => /\ Pulls(p) = 0
           /\ dockerCmd[p].args # <<>>

\* C8, amended: a call on a reference with a daemon prefix never pulls, under
\* every pull mode. If the reference without its prefix parses, the call runs
\* the daemon loader on the parsed name: it builds `<daemon> save <name>` and
\* starts it, unless the pipe could not be made. If it does not parse, the
\* call returns the parse error and runs nothing.
C8_DaemonPrefix ==
    \A p \in Procs :
        (Called(p) /\ IsDaemonRef(rawRef[p]))
        => /\ Pulls(p) = 0
           /\ pc[p] \notin {"PullAlways", "imageStoreGet", "PullMissing",
                            "imageStoreGetRetry", "imagesCheck", "PullPlatforms"}
           /\ IF WellFormed(rawRef[p])
              THEN /\ name[p] = Familiar[Remainder(rawRef[p])[1]]
                   /\ dockerCmd[p].args =
                        << IF rawRef[p][1] = "docker://" THEN "docker" ELSE "podman",
                           "save", name[p] >>
                   /\ \/ Starts(p) = 1 /\ log[p][1].op = "Start"
                      \/ Done(p) /\ log[p] = <<>> /\ ret[p].err = <<ErrIO>>
              ELSE /\ Done(p)
                   /\ ret[p] = [img |-> NoImage,
                                err |-> <<"failed to parse", ErrInvalidReference>>]
                   /\ log[p] = <<>>
                   /\ dockerCmd[p] = NoCmd

C8_Witness ==
    \E p \in Procs :
        /\ Done(p)
        /\ rawRef[p] = <<"podman://", "app">>
        /\ pullMode[p] = "never"
        /\ ret[p].err = nil
        /\ ret[p].img.Name = "docker.io/library/app:latest"
        /\ dockerCmd[p].args[1] = "podman"

\* C9: a call on a daemon reference whose subprocess did not start, or has
\* ended with a status other than 0 when the call returns, returns an error and
\* no image.
C9_SubprocessFailure ==
    [][ \A p \in Procs :
          ( /\ pc[p] # "done" /\ pc'[p] = "done"
            /\ IsDaemonRef(rawRef'[p])
            /\ \/ \E i \in DOMAIN log'[p] :
                    log'[p][i].op = "Start" /\ log'[p][i].arg # nil
               \/ dockerCmd'[p].state = "exited" /\ dockerCmd'[p].status # 0 )
          => (ret'[p].err # nil /\ ret'[p].img = NoImage) ]_vars

\* C10: when a call on a daemon reference returns after it started the
\* subprocess, the subprocess has ended and has been waited for, and the
\* import transfer, if begun, has returned.
C10_SubprocessReaped ==
    [][ \A p \in Procs :
          ( /\ pc[p] # "done" /\ pc'[p] = "done"
            /\ dockerCmd'[p].state # "unstarted" )
          => /\ dockerCmd'[p].state = "reaped"
             /\ Transfers(p)' = CountOp(log'[p], "TransferReturn") ]_vars

\* C11: when ctx is cancelled while the subprocess of a call on a daemon
\* reference runs, the call returns an error, and at its return the subprocess
\* has been terminated and the pipe from it is closed.
C11_CancelTerminates ==
    [][ \A p \in Procs :
          ( /\ pc[p] # "done" /\ pc'[p] = "done"
            /\ IsDaemonRef(rawRef'[p])
            /\ ctx'[p] = "canceled" )
          => /\ ret'[p].err # nil
             /\ dockerCmd'[p].state # "running"
             /\ ~stdout'[p].ropen ]_vars

\* C12: a Read of readerWithEOF whose underlying Read failed with the
\* already-closed error returns the same byte count and EOF; on every other
\* underlying result it returns that result unchanged.
C12_ClosedIsEOF ==
    lastRead.seen # NoRead =>
        IF \E i \in DOMAIN lastRead.under.err :
               lastRead.under.err[i] = "file already closed"
        THEN lastRead.seen = [n |-> lastRead.under.n, err |-> <<"EOF">>]
        ELSE lastRead.seen = lastRead.under

\* A Read that got some bytes together with the wrapped already-closed error.
C12_Witness ==
    /\ lastRead.under = [n |-> 3, err |-> <<"read |0", "file already closed">>]
    /\ lastRead.seen = [n |-> 3, err |-> <<"EOF">>]

\* The collaborator calls of loadDocker, in the order of the code.
DaemonSteps == <<"Start", "Transfer", "TransferReturn", "Get", "Check">>
\* The call logged as e reported a failure.
Failed(e) ==
    CASE e.op \in {"Start", "TransferReturn"} -> e.arg # <<>>
      [] e.op = "Get" -> e.arg.err # <<>>
      [] e.op = "Check" -> e.arg # "available"
      [] OTHER -> FALSE

\* C13: a call on a daemon reference starts the subprocess at most once, then
\* makes at most one transfer, then at most one lookup, then at most one check,
\* in this order and with no pull; when one of them fails the call makes no
\* further call and returns an error and no image.
C13_DaemonSingleShot ==
    \A p \in Procs :
        (Called(p) /\ IsDaemonRef(rawRef[p])) =>
            /\ Len(log[p]) <= Len(DaemonSteps)
            /\ \A i \in DOMAIN log[p] : log[p][i].op = DaemonSteps[i]
            /\ \A i \in DOMAIN log[p] :
                   Failed(log[p][i]) =>
                       /\ i = Len(log[p])
                       /\ Done(p)
                       /\ ret[p].err # <<>>
                       /\ ret[p].img = NoImage

\* The archive was loaded, and the lookup that follows does not find the image.
C13_Witness ==
    \E p \in Procs :
        /\ Done(p) /\ IsDaemonRef(rawRef[p])
        /\ Len(log[p]) = 4
        /\ log[p][3] = Event("TransferReturn", <<>>)
        /\ log[p][4].op = "Get"
        /\ \E i \in DOMAIN log[p][4].arg.err : log[p][4].arg.err[i] = "not found"
        /\ ret[p].err # <<>>
        /\ ret[p].err[1] = "should have loaded an archive, but the loaded image is not accessible"

\* The lookup logged as e reported not-found.
NotFound(e) ==
    e.op = "Get" /\ \E i \in DOMAIN e.arg.err : e.arg.err[i] = "not found"

\* C14: in a call on a registry reference with pull mode "missing", every pull
\* comes right after a lookup that reported not-found or a check that reported
\* missing blobs; a call whose lookup finds the image and whose check finds it
\* complete returns that image without any pull.
C14_MissingPullsOnDemand ==
    \A p \in Procs :
        (IsRegistryCall(p) /\ pullMode[p] = "missing") =>
            /\ \A i \in OpIndexes(log[p], "Pull") :
                   /\ i > 1
                   /\ NotFound(log[p][i - 1]) \/ log[p][i - 1] = Unavailable
            /\ ( /\ Len(log[p]) >= 2
                 /\ log[p][1].op = "Get" /\ log[p][1].arg.err = <<>>
                 /\ log[p][2] = Event("Check", "available") )
               => /\ Done(p)
                  /\ ret[p] = [img |-> log[p][1].arg.img, err |-> <<>>]
                  /\ Pulls(p) = 0

\* Mode "missing", the image is there with every platform asked for.
C14_Witness ==
    \E p \in Procs :
        /\ Done(p) /\ IsRegistryCall(p) /\ pullMode[p] = "missing"
        /\ plats[p] = Platforms
        /\ Len(log[p]) = 2
        /\ log[p][1].op = "Get" /\ log[p][1].arg.err = <<>>
        /\ log[p][2] = Event("Check", "available")
        /\ ret[p].err = <<>> /\ ret[p].img = log[p][1].arg.img
        /\ Pulls(p) = 0

\* C15: in a call on a registry reference, a Pull that returns an error is the
\* last collaborator call of the call, whichever of the three Pulls it is: the
\* call has returned the pull error and no image.
C15_PullFailureIsFinal ==
    \A p \in Procs :
        IsRegistryCall(p) =>
            \A i \in OpIndexes(log[p], "PullReturn") :
                log[p][i].arg # <<>> =>
                    /\ i = Len(log[p])
                    /\ Done(p)
                    /\ ret[p].img = NoImage
                    /\ ret[p].err = <<"failed to pull">> \o log[p][i].arg

\* Mode "always": the first two Pulls succeed, the third one, for the missing
\* platforms, fails.
C15_Witness ==
    \E p \in Procs :
        /\ Done(p) /\ IsRegistryCall(p) /\ pullMode[p] = "always"
        /\ Pulls(p) = 3
        /\ log[p][Len(log[p])].op = "PullReturn"
        /\ log[p][Len(log[p])].arg # <<>>
        /\ log[p][Len(log[p]) - 2] = Unavailable
        /\ ret[p].err # <<>> /\ ret[p].img = NoImage

\* C16: concurrent calls for one name are not deduplicated. A call in progress
\* never waits for another call, and a call under pull mode "missing" whose
\* lookup reported not-found makes its own pull, whatever the other calls do;
\* so two calls can be pulling the same name at the same time.
C16_NoDeduplication ==
    \A p \in Procs :
        /\ (Called(p) /\ ~Done(p)) => ENABLED RegistryStep(p)
        /\ (IsRegistryCall(p) /\ pullMode[p] = "missing"
              /\ log[p] # <<>> /\ NotFound(log[p][1]))
           => (Len(log[p]) >= 2 /\ log[p][2].op = "Pull")

\* Both calls have seen not-found for the same name, and both pulls are in
\* flight.
C16_Witness ==
    \E p, q \in Procs :
        /\ p # q
        /\ name[p] = name[q]
        /\ pc[p] = "PullMissing" /\ pc[q] = "PullMissing"
        /\ Len(log[p]) = 2 /\ Len(log[q]) = 2
        /\ NotFound(log[p][1]) /\ NotFound(log[q][1])
        /\ log[p][2].op = "Pull" /\ log[q][2].op = "Pull"
        /\ Pulls(p) + Pulls(q) = 2

\* The most Pulls a call on a registry reference makes under each pull mode.
MaxPulls(mode) ==
    CASE mode = "always" -> 3
      [] mode = "missing" -> 2
      [] OTHER -> 0
\* Every collaborator call of the longest call: three Pulls and their returns,
\* two lookups, one check.
MaxCalls == 2 * MaxPulls("always") + 2 + 1

\* C17: a call on a registry reference makes at most 3 pulls under "always",
\* 2 under "missing" and none under "never", at most 2 lookups and at most 1
\* check; until it has returned it can always take a step, and each of its
\* steps is one more collaborator call or its return, so it returns after at
\* most MaxCalls steps; it returns either an image or an error, never both and
\* never neither.
C17_BoundedCalls ==
    /\ [](\A p \in Procs :
            IsRegistryCall(p) =>
                /\ Pulls(p) <= MaxPulls(pullMode[p])
                /\ Lookups(p) <= 2
                /\ Checks(p) <= 1
                /\ Len(log[p]) <= MaxCalls
                /\ ~Done(p) => ENABLED (PullAlwaysReturn(p) \/ RegistryStep(p))
                /\ Done(p) => \/ ret[p].img # NoImage /\ ret[p].err = <<>>
                              \/ ret[p].img = NoImage /\ ret[p].err # <<>>)
    /\ [][ \A p \in Procs :
              (IsRegistryCall(p) /\ pc'[p] # pc[p]) =>
                  \/ Len(log'[p]) > Len(log[p])
                  \/ Done(p)' ]_vars

\* The longest call: mode "always", three pulls, two lookups, one check, and
\* the image is returned.
C17_Witness ==
    \E p \in Procs :
        /\ Done(p) /\ IsRegistryCall(p) /\ pullMode[p] = "always"
        /\ Pulls(p) = 3 /\ Lookups(p) = 2 /\ Checks(p) = 1
        /\ Len(log[p]) = MaxCalls
        /\ ret[p].err = <<>> /\ ret[p].img # NoImage

\* C18: a call that returns an image has made exactly one platform check, after
\* its last lookup and on the target of the image it returns, which is the one
\* that lookup found; under pull mode "never" and on a daemon reference the
\* check found the image complete.
C18_CheckedBeforeReturn ==
    \A p \in Procs :
        (Done(p) /\ ret[p].err = <<>>) =>
            /\ Checks(p) = 1
            /\ Lookups(p) >= 1
            /\ \A c \in OpIndexes(log[p], "Check") :
                   /\ c > Max(OpIndexes(log[p], "Get"))
                   /\ (pullMode[p] = "never" \/ IsDaemonRef(rawRef[p]))
                      => log[p][c] = Event("Check", "available")
            /\ ret[p].img = LastGet(p).img
            /\ ret[p].img # NoImage
            /\ checked[p] = ret[p].img.Target

\* The image is returned after a pull and a second lookup, checked on the
\* target the pull brought.
C18_Witness ==
    \E p \in Procs :
        /\ Done(p) /\ ret[p].err = <<>>
        /\ Lookups(p) = 2 /\ Checks(p) = 1
        /\ FirstGet(p).err # <<>>
        /\ ret[p].img.Target = "sha256:new"
        /\ checked[p] = "sha256:new"
        /\ log[p][Len(log[p])] = Event("Check", "available")

====
